---- MODULE Spec2Model ----
(***************************************************************************)
(* Model of repository_crawler.py: load_config, get_github_repo,           *)
(* get_repo_files (recursive, paginated walk streaming FileEntry lines to  *)
(* the opened artifact) and main (the per-repository loop).                *)
(*                                                                         *)
(* Strings the program takes apart ("owner/name") are sequences of         *)
(* one-character strings, so that split('/') and the artifact name         *)
(* f'{owner}_{repo_name}.json' are computed as the code computes them.     *)
(* Strings the program only passes through (paths, messages) are atoms.    *)
(***************************************************************************)
EXTENDS Integers, Sequences, FiniteSets, TLC

\* ------------------------------------------------------------------ bounds
\* longest crawl_repos list of a configuration
MaxRepos == 2
\* most page requests of one walk
MaxRequests == 6

\* ------------------------------------------------------- "owner/name" strings
RepoA == <<"a", "_", "b", "/", "c">>
RepoB == <<"a", "/", "b", "_", "c">>
RepoNoSlash == <<"x", "y">>
RepoTwoSlash == <<"x", "/", "y", "/", "z">>
RepoNoName == <<"x", "/">>

RepoIds == {RepoA, RepoB, RepoNoSlash, RepoTwoSlash, RepoNoName}

RECURSIVE SeqsUpTo(_, _)
SeqsUpTo(S, n) ==
    IF n = 0 THEN {<<>>}
    ELSE LET shorter == SeqsUpTo(S, n - 1)
         IN  shorter \cup {Append(s, x) : s \in {t \in shorter : Len(t) = n - 1}, x \in S}

\* str.split(sep): the segments between the occurrences of sep
RECURSIVE split(_, _)
split(s, sep) ==
    IF \A k \in 1..Len(s) : s[k] # sep THEN <<s>>
    ELSE LET k == CHOOSE j \in 1..Len(s) : s[j] = sep /\ \A m \in 1..(j - 1) : s[m] # sep
         IN  <<SubSeq(s, 1, k - 1)>> \o split(SubSeq(s, k + 1, Len(s)), sep)

\* os.path.join(OUTPUT_DIR, f'{owner}_{repo_name}.json'), OUTPUT_DIR being fixed
output_path(owner, repo_name) == owner \o <<"_">> \o repo_name \o <<".json">>

\* ------------------------------------------------------------ configurations
\* The parsed YAML document: doc is what yaml.safe_load returned (None, a
\* scalar string, a mapping); github, token and crawl say what the mapping
\* holds under 'github', 'github'.'token' and 'crawl_repos'.
Config(doc, github, token, crawl, repos) ==
    [doc |-> doc, github |-> github, token |-> token, crawl |-> crawl, repos |-> repos]

ValidConfigs == {Config("map", "map", "str", "list", r) : r \in SeqsUpTo(RepoIds, MaxRepos)}

InvalidConfigs ==
    { Config("none", "absent", "absent", "absent", <<>>),
      Config("str", "absent", "absent", "absent", <<>>),
      Config("map", "absent", "absent", "list", <<RepoA>>),
      Config("map", "absent", "absent", "absent", <<>>),
      Config("map", "map", "absent", "list", <<RepoA>>),
      Config("map", "map", "absent", "absent", <<>>),
      Config("map", "map", "str", "absent", <<>>),
      Config("map", "nonmap", "absent", "list", <<RepoA>>),
      Config("map", "nonmap", "absent", "absent", <<>>),
      Config("map", "map", "none", "list", <<RepoA>>),
      Config("map", "map", "str", "none", <<>>) }

Configs == ValidConfigs \cup InvalidConfigs

NoError == [type |-> "none", msg |-> "none"]
Error(type, msg) == [type |-> type, msg |-> msg]

\* load_config: the exception it raises, or NoError when it returns config
load_config(c) ==
    IF c.doc = "none" THEN Error("TypeError", "argument of type 'NoneType' is not iterable")
    ELSE IF c.doc = "str" THEN Error("ValueError", "Missing 'github' section in config")
    ELSE IF c.github = "absent" THEN Error("ValueError", "Missing 'github' section in config")
    ELSE IF c.github = "map" /\ c.token = "absent"
         THEN Error("ValueError", "Missing 'github.token' in config")
    ELSE IF c.crawl = "absent" THEN Error("ValueError", "Missing 'crawl_repos' section in config")
    ELSE NoError

\* main, lines 140-144: what the statements between load_config and the loop raise
main_prologue(c) ==
    IF c.github # "map" THEN Error("TypeError", "config['github']['token']")
    ELSE IF c.token # "str" THEN Error("TypeError", "token[-4:]")
    ELSE IF c.crawl # "list" THEN Error("TypeError", "', '.join(repos)")
    ELSE NoError

\* get_github_repo without the status check of lines 53-54
get_github_repo_unchecked(outcome) ==
    IF outcome \in {"ok", "ok_no_html_url", "status"} THEN NoError
    ELSE IF outcome = "HTTPError" THEN Error("Exception", "GitHub API error (<code>): <reason>")
    ELSE Error("Exception", "Network error: <reason>")

\* get_github_repo, lines 51-59: the exception raised for what urlopen did
\* ("ok": a 200 response; "ok_no_html_url": a 200 response whose document has
\* no 'html_url'; "status": a response whose status is not 200)
get_github_repo(outcome) ==
    IF outcome \in {"ok", "ok_no_html_url"} THEN NoError
    ELSE IF outcome = "HTTPError" THEN Error("Exception", "GitHub API error (<code>): <reason>")
    ELSE IF outcome = "status" THEN Error("Exception", "GitHub API error (<code>): <reason>")
    ELSE Error("Exception", "Network error: <reason>")

\* ------------------------------------------------------------------ remote
None == <<>>

\* a request URL: the contents URL of a path is page 1, the continuation
\* cursors handed out by the remote are the other pages
Url(path, page) == <<path, page>>
ContentsUrl(path) == Url(path, 1)

File(p) == [type |-> "file", path |-> p, download_url |-> <<"raw", p>>, size |-> Len(p)]
Dir(p) == [type |-> "dir", path |-> p]
Other(p) == [type |-> "symlink", path |-> p]
\* a file entry the remote lists without its 'size'
NoSize(p) == [type |-> "file", path |-> p, download_url |-> <<"raw", p>>]
Link(u, rel) == [url |-> u, rel |-> rel]
Page(items, link) == [items |-> items, link |-> link]

\* nested directories, every listing on one page
TreeNested ==
    (ContentsUrl("") :> Page(<<Dir("src"), File("README.md"), Other("ln")>>, <<>>)) @@
    (ContentsUrl("src") :> Page(<<File("src/main.py"), Dir("src/lib")>>, <<>>)) @@
    (ContentsUrl("src/lib") :> Page(<<File("src/lib/util.py")>>, <<>>))

\* the root and one subdirectory listed over two pages each
TreePaged ==
    (Url("", 1) :> Page(<<File("f1"), Dir("d")>>,
                        <<Link(Url("", 1), "first"), Link(Url("", 2), "next")>>)) @@
    (Url("", 2) :> Page(<<File("f2")>>, <<Link(Url("", 1), "prev")>>)) @@
    (Url("d", 1) :> Page(<<File("d/g")>>, <<Link(Url("d", 2), "next")>>)) @@
    (Url("d", 2) :> Page(<<File("d/h")>>, <<>>))

\* a directory whose listing has no entries
TreeEmptyDir ==
    (ContentsUrl("") :> Page(<<Dir("e"), File("f")>>, <<>>)) @@
    (ContentsUrl("e") :> Page(<<>>, <<>>))

\* an empty directory listed on the first of the two pages of a subdirectory
TreePagedEmpty ==
    (Url("", 1) :> Page(<<Dir("d"), File("f")>>, <<>>)) @@
    (Url("d", 1) :> Page(<<File("d/g"), Dir("d/e")>>, <<Link(Url("d", 2), "next")>>)) @@
    (Url("d", 2) :> Page(<<File("d/h")>>, <<>>)) @@
    (Url("d/e", 1) :> Page(<<>>, <<>>))

\* a subdirectory one of whose entries lacks a field
TreeNoSize ==
    (ContentsUrl("") :> Page(<<File("a"), Dir("d"), File("z")>>, <<>>)) @@
    (ContentsUrl("d") :> Page(<<File("d/x"), NoSize("d/y"), File("d/w")>>, <<>>))

Trees == {TreeNested, TreePaged, TreeEmptyDir, TreePagedEmpty, TreeNoSize}

\* one directory, no subdirectory, whose only page names itself as the next
TreeCursorSelf ==
    (Url("", 1) :> Page(<<File("f")>>, <<Link(Url("", 1), "next")>>))

\* one directory, no subdirectory, whose second page names the first as the next
TreeCursorBack ==
    (Url("", 1) :> Page(<<Other("ln")>>, <<Link(Url("", 2), "next")>>)) @@
    (Url("", 2) :> Page(<<File("g")>>, <<Link(Url("", 1), "next")>>))

\* remotes whose directory graph is one node and whose cursors form a cycle
CursorTrees == {TreeCursorSelf, TreeCursorBack}

\* lines 101-107: the URL of the first link of the Link header marked rel="next"
next_url(link_header) ==
    LET next_link == SelectSeq(link_header, LAMBDA l : l.rel = "next")
    IN  IF next_link # <<>> THEN next_link[1].url ELSE None

\* lines 81-85: the line written for a file item
json_line(item) ==
    [path |-> item.path, download_url |-> item.download_url, size |-> item.size]

\* line 162-166: the metadata header line
metadata_line(repo) == [repo_info |-> repo, crawl_timestamp |-> "now"]

\* ------------------------------------------------------------------- state
VARIABLES
    cfg,      \* the parsed configuration document
    pc,       \* where main is: "load", "loop", "fetch", "header", "append", "walk", "done",
              \* "exit", or "blocked" inside a urlopen that does not return
    i,        \* index into crawl_repos of the repository being processed
    fs,       \* the output directory: artifact name -> the lines of the artifact
    tree,     \* what the remote serves for the repository being walked
    stack,    \* the get_repo_files frames, outermost first
    calls,    \* get_github_repo and top-level get_repo_files calls made by main
    reqs,     \* the page requests of the current repository's walk, and whether a page came
    outcome,  \* what the last urlopen of the current repository did
    seen,     \* the items the walk of the current repository has processed, with what was done
    out,      \* the lines written through output_file for the current repository
    hdr,      \* the number of metadata headers written for the current repository
    ret,      \* what the top-level get_repo_files call returned
    exc,      \* the exception caught for the current repository (lines 179-181)
    crit,     \* the exception caught by the outer handler of main (lines 185-187)
    exit      \* process exit: "none" while running, "0" on return from main, "1" on sys.exit(1)

vars == <<cfg, pc, i, fs, tree, stack, calls, reqs, outcome, seen, out, hdr, ret, exc, crit, exit>>

NoTree == <<>>
\* the lines of an artifact, none when there is no such file
Content(name) == IF name \in DOMAIN fs THEN fs[name] ELSE <<>>
NoReturn == [returned |-> FALSE, files |-> <<>>]

repos == cfg.repos
repo == repos[i]
owner == split(repo, "/")[1]
repo_name == split(repo, "/")[2]
artifact == output_path(owner, repo_name)

\* a get_repo_files frame: url is the page being requested (k = 0) or the
\* page whose item k is next (k > Len(items): the Link header is next)
Frame(path, url, k) == [path |-> path, url |-> url, k |-> k, files |-> <<>>]
top == stack[Len(stack)]
data == tree[top.url].items

\* response_open with the recursive call made after the 'with' block
response_open_leaf(s, n) == s[n].k >= 1 /\ n = Len(s)

\* lines 73-107: frame n of s is inside its 'with urlopen(request) as
\* response' block: it has received a page and has not yet gone on to the next
\* request or returned
response_open(s, n) == s[n].k >= 1

Seen(url, k, done) == [url |-> url, k |-> k, outcome |-> done]
Call(fn, k, ok) == [fn |-> fn, i |-> k, ok |-> ok]

\* what a urlopen does; "no_answer": the remote accepts the connection and
\* never answers, and urlopen, called without a timeout (lines 52 and 73),
\* does not return
MetaOutcomes == {"ok", "ok_no_html_url", "HTTPError", "URLError", "status", "no_answer"}
PageOutcomes == {"ok", "HTTPError", "URLError", "status", "no_answer"}

Init ==
    /\ cfg \in Configs
    /\ pc = "load"
    /\ i = 0
    /\ fs = <<>>
    /\ tree = NoTree
    /\ stack = <<>>
    /\ calls = <<>>
    /\ reqs = <<>>
    /\ outcome = "none"
    /\ seen = <<>>
    /\ out = <<>>
    /\ hdr = 0
    /\ ret = NoReturn
    /\ exc = NoError
    /\ crit = NoError
    /\ exit = "none"

\* lines 185-187: the outer handler of main
Critical(e) ==
    /\ crit' = e
    /\ exit' = "1"
    /\ pc' = "exit"

\* lines 179-181: the per-repository handler of main; every get_repo_files
\* frame is unwound
Caught(e) ==
    /\ exc' = e
    /\ stack' = <<>>
    /\ i' = i + 1
    /\ pc' = "loop"

\* lines 137-144
MainLoad ==
    /\ pc = "load"
    /\ IF load_config(cfg) # NoError
       THEN Critical(load_config(cfg)) /\ UNCHANGED i
       ELSE IF main_prologue(cfg) # NoError
       THEN Critical(main_prologue(cfg)) /\ UNCHANGED i
       ELSE pc' = "loop" /\ i' = 1 /\ UNCHANGED <<crit, exit>>
    /\ UNCHANGED <<exc, cfg, fs, tree, stack, calls, reqs, outcome, seen, out, hdr, ret>>

\* lines 147-149: the next repository of the list
MainNextRepo ==
    /\ pc = "loop"
    /\ i <= Len(repos)
    /\ IF Len(split(repo, "/")) # 2
       THEN Critical(Error("ValueError", "unpack")) /\ UNCHANGED <<tree, reqs, outcome, seen, out, hdr, ret, exc>>
       ELSE /\ pc' = "fetch"
            /\ tree' = NoTree
            /\ reqs' = <<>>
            /\ outcome' = "none"
            /\ seen' = <<>>
            /\ out' = <<>>
            /\ hdr' = 0
            /\ ret' = NoReturn
            /\ exc' = NoError
            /\ UNCHANGED <<crit, exit>>
    /\ UNCHANGED <<cfg, i, fs, stack, calls>>

\* line 183: the list is exhausted, main returns
MainComplete ==
    /\ pc = "loop"
    /\ i > Len(repos)
    /\ pc' = "done"
    /\ exit' = "0"
    /\ UNCHANGED <<crit, cfg, i, fs, tree, stack, calls, reqs, outcome, seen, out, hdr, ret, exc>>

\* lines 155-156
MainFetch ==
    /\ pc = "fetch"
    /\ \E o \in MetaOutcomes :
        /\ calls' = Append(calls, Call("get_github_repo", i,
                                        o # "no_answer" /\ get_github_repo(o) = NoError))
        /\ outcome' = o
        /\ IF o = "no_answer" THEN pc' = "blocked" /\ UNCHANGED <<i, stack, exc>>
           ELSE IF get_github_repo(o) # NoError THEN Caught(get_github_repo(o))
           ELSE IF o = "ok_no_html_url" THEN Caught(Error("KeyError", "html_url"))
           ELSE pc' = "header" /\ UNCHANGED <<i, stack, exc>>
    /\ UNCHANGED <<cfg, fs, tree, reqs, seen, out, hdr, ret, crit, exit>>

\* header_file with the artifact opened in append mode
header_file_appending(old, line) == Append(old, line)

\* lines 161-166: what the artifact holds after open(output_path, 'w') and
\* the write of the header line
header_file(old, line) == <<line>>

\* lines 158-166: makedirs, open(output_path, 'w'), write of the header
MainHeader ==
    /\ pc = "header"
    /\ \E o \in {"ok", "open_fails", "write_fails"} :
        IF o = "ok"
        THEN /\ fs' = (artifact :> header_file(Content(artifact), metadata_line(repo))) @@ fs
             /\ hdr' = hdr + 1
             /\ pc' = "append"
             /\ UNCHANGED <<i, stack, exc>>
        ELSE IF o = "write_fails"
        THEN /\ fs' = (artifact :> <<>>) @@ fs
             /\ Caught(Error("OSError", "write of the header"))
             /\ UNCHANGED hdr
        ELSE /\ Caught(Error("OSError", "open 'w'"))
             /\ UNCHANGED <<fs, hdr>>
    /\ UNCHANGED <<cfg, tree, calls, reqs, outcome, seen, out, ret, crit, exit>>

\* lines 169-170: open(output_path, 'a') and the top-level get_repo_files
\* call, against a remote of T
MainWalkOver(T) ==
    /\ pc = "append"
    /\ \E o \in {"ok", "open_fails"} :
        IF o = "ok"
        THEN /\ \E t \in T : tree' = t
             /\ stack' = <<Frame("", ContentsUrl(""), 0)>>
             /\ calls' = Append(calls, Call("get_repo_files", i, TRUE))
             /\ pc' = "walk"
             /\ UNCHANGED <<i, exc>>
        ELSE /\ Caught(Error("OSError", "open 'a'"))
             /\ UNCHANGED <<tree, calls>>
    /\ UNCHANGED <<cfg, fs, reqs, outcome, seen, out, hdr, ret, crit, exit>>

MainWalk == MainWalkOver(Trees)

\* Return with 'continue' in place of 'break' and of the end of the loop: the
\* frame stays in its loop with the url it has
Retry == UNCHANGED <<stack, ret, i, pc>>

\* line 116 (and line 170 for the outermost frame): the frame returns files
Return ==
    IF Len(stack) = 1
    THEN /\ stack' = <<>>
         /\ ret' = [returned |-> TRUE, files |-> top.files]
         /\ i' = i + 1
         /\ pc' = "loop"
    ELSE /\ stack' = SubSeq(stack, 1, Len(stack) - 1)
         /\ UNCHANGED <<ret, i, pc>>

\* handles without the 'except URLError' clause
handles_http_only(e) == e.type = "HTTPError"

\* handles with a bare 'except Exception' around the page
handles_any(e) == TRUE

\* handles with 'except OSError' in place of 'except URLError'
handles_oserror(e) == e.type \in {"HTTPError", "URLError", "OSError"}

\* lines 109-114: the exceptions the handlers of a frame catch (and break on)
handles(e) == e.type \in {"HTTPError", "URLError"}

\* an exception raised inside the try block of the innermost frame (lines
\* 72-107): caught there, the frame breaks out of its loop and returns; not
\* caught, it is caught by no enclosing frame either and reaches main
Throw(e) ==
    IF handles(e) THEN Return /\ UNCHANGED exc
    ELSE Caught(e) /\ UNCHANGED ret

\* lines 73-77: what urlopen and the statements up to the loop over the
\* items raise, for the outcome of the request and the document received
page_raises(o, d) ==
    IF o \in {"HTTPError", "URLError"} THEN Error(o, "urlopen")
    ELSE IF o = "ok" /\ d = <<>> THEN Error("IndexError", "data[0]")
    ELSE NoError

\* lines 66-77 and 109-114: one page request and what the frame does with it
WalkRequest ==
    /\ pc = "walk"
    /\ top.k = 0
    /\ Len(reqs) < MaxRequests
    /\ \E o \in PageOutcomes :
        /\ o = "ok" => top.url \in DOMAIN tree
        /\ reqs' = Append(reqs, [url |-> top.url, ok |-> o = "ok"])
        /\ outcome' = o
        /\ LET e == page_raises(o, IF o = "ok" THEN data ELSE <<>>)
           IN  IF e # NoError THEN Throw(e)
               ELSE IF o = "status" THEN Return /\ UNCHANGED exc
               ELSE IF o = "no_answer" THEN pc' = "blocked" /\ UNCHANGED <<stack, ret, i, exc>>
               ELSE /\ stack' = [stack EXCEPT ![Len(stack)].k = 1]
                    /\ UNCHANGED <<ret, i, pc, exc>>
    /\ UNCHANGED <<cfg, fs, tree, calls, seen, out, hdr, crit, exit>>

\* lines 79-95: the KeyError the subscripts of an item raise, in the order
\* the code evaluates them
item_raises(item) ==
    IF "type" \notin DOMAIN item THEN Error("KeyError", "type")
    ELSE IF item.type = "file"
    THEN IF "path" \notin DOMAIN item THEN Error("KeyError", "path")
         ELSE IF "download_url" \notin DOMAIN item THEN Error("KeyError", "download_url")
         ELSE IF "size" \notin DOMAIN item THEN Error("KeyError", "size")
         ELSE NoError
    ELSE IF item.type = "dir" /\ "path" \notin DOMAIN item THEN Error("KeyError", "path")
    ELSE NoError

\* descend with the walk of the subdirectory put off until the caller's return
descend_deferred(caller, callee) == <<callee>> \o caller

\* line 95: the recursive call; the frame of the subdirectory runs on top of
\* the frames of its callers, which resume when it returns
descend(caller, callee) == Append(caller, callee)

\* lines 78-95: one item of the page
WalkItem ==
    /\ pc = "walk"
    /\ top.k >= 1
    /\ top.k <= Len(data)
    /\ LET item == data[top.k]
           resume == [stack EXCEPT ![Len(stack)].k = top.k + 1]
       IN  IF item_raises(item) # NoError
           THEN /\ seen' = Append(seen, Seen(top.url, top.k, "raises"))
                /\ Throw(item_raises(item))
                /\ UNCHANGED <<fs, out>>
           ELSE IF item.type = "file"
           THEN \E o \in {"ok", "write_fails"} :
                /\ seen' = Append(seen, Seen(top.url, top.k, o))
                /\ IF o = "ok"
                   THEN /\ fs' = [fs EXCEPT ![artifact] = Append(@, json_line(item))]
                        /\ out' = Append(out, json_line(item))
                        /\ stack' = resume
                        /\ UNCHANGED <<ret, i, pc, exc>>
                   ELSE /\ Throw(Error("OSError", "write"))
                        /\ UNCHANGED <<fs, out>>
           ELSE IF item.type = "dir"
           THEN /\ seen' = Append(seen, Seen(top.url, top.k, "dir"))
                /\ stack' = descend(resume, Frame(item.path, ContentsUrl(item.path), 0))
                /\ UNCHANGED <<fs, out, ret, i, pc, exc>>
           ELSE /\ seen' = Append(seen, Seen(top.url, top.k, "skip"))
                /\ stack' = resume
                /\ UNCHANGED <<fs, out, ret, i, pc, exc>>
    /\ UNCHANGED <<cfg, tree, calls, reqs, outcome, hdr, crit, exit>>

\* lines 100-107 and 66: the Link header of a processed page, and the loop test
WalkLink ==
    /\ pc = "walk"
    /\ top.k > Len(data)
    /\ LET url == next_url(tree[top.url].link)
       IN  IF url # None
           THEN /\ stack' = [stack EXCEPT ![Len(stack)].url = url, ![Len(stack)].k = 0]
                /\ UNCHANGED <<ret, i, pc>>
           ELSE Return
    /\ UNCHANGED <<cfg, fs, tree, calls, reqs, outcome, seen, out, hdr, exc, crit, exit>>

Next ==
    \/ MainLoad
    \/ MainNextRepo
    \/ MainComplete
    \/ MainFetch
    \/ MainHeader
    \/ MainWalk
    \/ WalkRequest
    \/ WalkItem
    \/ WalkLink

Spec == Init /\ [][Next]_vars

\* main is one thread of control: while a step is possible, one is taken
FairSpec == Spec /\ WF_vars(Next)

\* the same program against remotes whose continuation cursors form a cycle
MainWalkCursor == MainWalkOver(CursorTrees)

CursorNext ==
    \/ MainLoad
    \/ MainNextRepo
    \/ MainComplete
    \/ MainFetch
    \/ MainHeader
    \/ MainWalkCursor
    \/ WalkRequest
    \/ WalkItem
    \/ WalkLink

CursorSpec == Init /\ [][CursorNext]_vars

\* ------------------------------------------------------- reading the history
Range(f) == {f[k] : k \in DOMAIN f}
Last(q) == q[Len(q)]

\* the walk of the current repository has started and is over
WalkOver == tree # NoTree /\ stack = <<>>
\* the URLs whose request did not deliver a page
Faulted == {r.url : r \in {q \in Range(reqs) : ~q.ok}}
SinkFault == seen # <<>> /\ Last(seen).outcome = "write_fails"
\* main has stopped
Stopped == pc \in {"done", "exit"}

CallsOf(fn) == SelectSeq(calls, LAMBDA c : c.fn = fn)
IndexesOf(fn) == [k \in 1..Len(CallsOf(fn)) |-> CallsOf(fn)[k].i]
MetaOk(k) == \E c \in Range(calls) : c.fn = "get_github_repo" /\ c.i = k /\ c.ok

\* the 'next' cursor a page of the remote carries, None when it carries none
NextCursor(t, u) ==
    IF \E k \in DOMAIN t[u].link : t[u].link[k].rel = "next"
    THEN t[u].link[CHOOSE k \in DOMAIN t[u].link :
             /\ t[u].link[k].rel = "next"
             /\ \A m \in 1..(k - 1) : t[u].link[m].rel # "next"].url
    ELSE None

\* the pages of a listing, from url u on, in the order of their cursors
RECURSIVE Chain(_, _)
Chain(t, u) ==
    IF u \notin DOMAIN t THEN <<>>
    ELSE IF NextCursor(t, u) = None THEN <<u>>
    ELSE <<u>> \o Chain(t, NextCursor(t, u))

\* the file-type leaves of the remote below url u, depth first, leaving out
\* what lies behind the URLs of F
RECURSIVE LeavesFrom(_, _, _), LeavesOf(_, _, _)
LeavesFrom(t, F, u) ==
    IF u \notin DOMAIN t \/ u \in F THEN <<>>
    ELSE LeavesOf(t, F, t[u].items) \o
         (IF NextCursor(t, u) = None THEN <<>> ELSE LeavesFrom(t, F, NextCursor(t, u)))
LeavesOf(t, F, items) ==
    IF items = <<>> THEN <<>>
    ELSE (IF Head(items).type = "file" THEN <<Head(items)>>
          ELSE IF Head(items).type = "dir" THEN LeavesFrom(t, F, ContentsUrl(Head(items).path))
          ELSE <<>>) \o LeavesOf(t, F, Tail(items))

Paths(lines) == [k \in DOMAIN lines |-> lines[k].path]
\* every entry the remote lists carries the fields the walk reads
Listed(t) == \A u \in DOMAIN t : \A k \in DOMAIN t[u].items : item_raises(t[u].items[k]) = NoError
SinglePaged(t) == \A u \in DOMAIN t : NextCursor(t, u) = None

\* ------------------------------------------------------------------ claims

\* C1: for every configuration load_config accepts (and whose token and
\* crawl_repos list main can read), whatever fails per repository, main
\* starts each of the N repositories once, in order (one get_github_repo call
\* each, and a top-level get_repo_files call only after a successful metadata
\* fetch, at most one), then completes normally without a non-zero exit.
C1_FailureIsolation ==
    (load_config(cfg) = NoError /\ main_prologue(cfg) = NoError /\ Stopped) =>
        /\ pc = "done"
        /\ exit = "0"
        /\ IndexesOf("get_github_repo") = [k \in 1..Len(repos) |-> k]
        /\ \A k \in 1..Len(repos) :
            /\ Cardinality({n \in DOMAIN calls :
                   calls[n].fn = "get_repo_files" /\ calls[n].i = k}) <= 1
            /\ (\E c \in Range(calls) : c.fn = "get_repo_files" /\ c.i = k) => MetaOk(k)

\* C2: with every listing on one page, every entry complete and no fault, the
\* walk from path ''
\* writes one FileEntry line per file-type leaf of the tree and nothing else,
\* each with the leaf's path as listed.
C2_TraversalComplete ==
    (WalkOver /\ SinglePaged(tree) /\ Listed(tree) /\ Faulted = {} /\ ~SinkFault) =>
        /\ Len(out) = Len(LeavesFrom(tree, {}, ContentsUrl("")))
        /\ Range(Paths(out)) = Range(Paths(LeavesFrom(tree, {}, ContentsUrl(""))))

\* C3: a directory listed over a chain of pages has its pages fetched in chain
\* order from the page without cursor up to the first page without 'next',
\* and every entry of every page is processed exactly once.
C3_Pagination ==
    (WalkOver /\ Faulted = {} /\ ~SinkFault) =>
        \A r \in Range(reqs) :
            (r.url[2] = 1 /\ Len(Chain(tree, r.url)) > 1) =>
                /\ SelectSeq([k \in DOMAIN reqs |-> reqs[k].url],
                             LAMBDA u : u[1] = r.url[1]) = Chain(tree, r.url)
                /\ \A u \in Range(Chain(tree, r.url)) : \A k \in DOMAIN tree[u].items :
                       Cardinality({n \in DOMAIN seen : seen[n].url = u /\ seen[n].k = k}) = 1

IsPrefix(p, q) == Len(p) <= Len(q) /\ SubSeq(q, 1, Len(p)) = p

\* C4: a page request failing with HTTPError or URLError makes the frame that
\* issued it return normally: the frame is popped (the outermost one returns
\* to main, which goes on to the next repository), nothing is raised to main,
\* the artifact keeps every line written before; and no step of a walk ever
\* removes a line from the artifact.
C4_PageFaultSwallowed ==
    [][ /\ (pc = "walk" /\ Len(reqs') = Len(reqs) + 1
             /\ outcome' \in {"HTTPError", "URLError"}) =>
               /\ stack' = SubSeq(stack, 1, Len(stack) - 1)
               /\ exc' = NoError
               /\ crit' = NoError
               /\ exit' = "none"
               /\ fs' = fs
               /\ out' = out
               /\ IF Len(stack) = 1 THEN ret'.returned /\ pc' = "loop" /\ i' = i + 1
                  ELSE pc' = "walk" /\ i' = i
        /\ pc = "walk" => IsPrefix(fs[artifact], fs'[artifact])
      ]_vars

\* C4 witness: a page request of a subdirectory has just failed after lines
\* were written, and the enclosing frame goes on
C4_Witness ==
    /\ pc = "walk"
    /\ stack # <<>>
    /\ reqs # <<>>
    /\ ~Last(reqs).ok
    /\ outcome \in {"HTTPError", "URLError"}
    /\ out # <<>>
    /\ exc = NoError

HeaderKeys == {"repo_info", "crawl_timestamp"}
FileEntryKeys == {"path", "download_url", "size"}

\* the artifact is a header line followed by FileEntry lines
WellFormed(lines) ==
    /\ DOMAIN lines[1] = HeaderKeys
    /\ \A k \in 2..Len(lines) : DOMAIN lines[k] = FileEntryKeys

\* main has left the repository of the last get_github_repo call
Left == calls # <<>> /\ pc \in {"loop", "done", "exit"}
HeaderFaults == {Error("OSError", "open 'w'"), Error("OSError", "write of the header")}

C6_MetadataFailure ==
    [][ (pc = "fetch" /\ outcome' \in {"HTTPError", "URLError", "status"}) =>
            /\ calls' = Append(calls, Call("get_github_repo", i, FALSE))
            /\ exc'.type = "Exception"
            /\ exc'.msg = (IF outcome' = "URLError"
                           THEN "Network error: <reason>"
                           ELSE "GitHub API error (<code>): <reason>")
            /\ fs' = fs
            /\ stack' = <<>>
            /\ reqs' = <<>>
            /\ pc' = "loop"
            /\ i' = i + 1
            /\ exit' = "none"
      ]_vars

\* C6 witness: the metadata fetch of the first entry failed and main is
\* fetching the metadata of the second
C6_Witness ==
    /\ pc = "fetch"
    /\ i = 2
    /\ calls = <<Call("get_github_repo", 1, FALSE)>>
    /\ fs = <<>>

\* C6 as stated: the artifact of a repository whose metadata fetch failed is
\* never created or written during the run
C6_NoArtifactInRun ==
    \A c \in Range(calls) :
        (c.fn = "get_github_repo" /\ ~c.ok) =>
            output_path(split(repos[c.i], "/")[1], split(repos[c.i], "/")[2]) \notin DOMAIN fs

\* C7: a write to output_file that raises, at any recursion depth, is caught by
\* no frame: every frame is unwound, main catches the OSError, no request is
\* issued and no line appended for the repository afterwards, and main goes on
\* to the next repository without exiting.
C7_SinkFaultUnwinds ==
    [][ /\ (pc = "walk" /\ Len(seen') = Len(seen) + 1
             /\ Last(seen').outcome = "write_fails") =>
               /\ exc' = Error("OSError", "write")
               /\ stack' = <<>>
               /\ fs' = fs
               /\ reqs' = reqs
               /\ ~ret'.returned
               /\ pc' = "loop"
               /\ i' = i + 1
               /\ exit' = "none"
        /\ SinkFault =>
               /\ stack' = <<>>
               /\ fs' = fs
               /\ Len(reqs') <= Len(reqs)
               /\ pc' \in {"fetch", "done", "exit"}
      ]_vars

\* C7 witness: a write failed two directories deep, after lines and requests,
\* and main is about to take the next repository
C7_Witness ==
    /\ SinkFault
    /\ Last(seen).url = ContentsUrl("src/lib")
    /\ exc = Error("OSError", "write")
    /\ pc = "loop"
    /\ i <= Len(repos)

\* the paths named in the configuration that are missing from it
MissingPaths(c) ==
    (IF c.github = "absent" THEN {"Missing 'github' section in config"} ELSE {}) \cup
    (IF c.crawl = "absent" THEN {"Missing 'crawl_repos' section in config"} ELSE {}) \cup
    (IF c.github # "absent" /\ c.token = "absent"
     THEN {"Missing 'github.token' in config"} ELSE {})

\* C8: for a parsed mapping without 'github', without 'crawl_repos' or without
\* 'token' under 'github' (also when 'github' is not a mapping), load_config
\* raises a ValueError naming a missing path, and main exits non-zero without
\* a network request.
C8_ConfigValidation ==
    (cfg.doc = "map" /\ MissingPaths(cfg) # {} /\ pc # "load") =>
            /\ load_config(cfg).type = "ValueError"
            /\ load_config(cfg).msg \in MissingPaths(cfg)
            /\ crit = load_config(cfg)
            /\ pc = "exit" /\ exit = "1" /\ calls = <<>> /\ reqs = <<>>

\* C9: the list get_repo_files returns holds one record per file of the walked
\* tree, subdirectories included.
C9_ReturnsFiles ==
    (ret.returned /\ Faulted = {}) =>
        Len(ret.files) = Len(LeavesFrom(tree, {}, ContentsUrl("")))

\* get_repo_files from url u on, and over the items of a page, when no
\* request fails and every write succeeds: the lines written, and whether an
\* exception ended the walk
RECURSIVE FaultFreeFrom(_, _), FaultFreeOver(_, _)
FaultFreeFrom(t, u) ==
    IF page_raises("ok", t[u].items) # NoError THEN [out |-> <<>>, raised |-> TRUE]
    ELSE LET r == FaultFreeOver(t, t[u].items)
         IN  IF r.raised \/ next_url(t[u].link) = None THEN r
             ELSE LET n == FaultFreeFrom(t, next_url(t[u].link))
                  IN  [out |-> r.out \o n.out, raised |-> n.raised]
FaultFreeOver(t, items) ==
    IF items = <<>> THEN [out |-> <<>>, raised |-> FALSE]
    ELSE LET h == IF item_raises(Head(items)) # NoError
                  THEN [out |-> <<>>, raised |-> TRUE]
                  ELSE IF Head(items).type = "file"
                  THEN [out |-> <<json_line(Head(items))>>, raised |-> FALSE]
                  ELSE IF Head(items).type = "dir"
                  THEN FaultFreeFrom(t, ContentsUrl(Head(items).path))
                  ELSE [out |-> <<>>, raised |-> FALSE]
         IN  IF h.raised THEN h
             ELSE LET r == FaultFreeOver(t, Tail(items))
                  IN  [out |-> h.out \o r.out, raised |-> r.raised]

\* the paths of the files listed from the failed pages on, and below them
Truncated == UNION {Range(Paths(LeavesFrom(tree, {}, u))) : u \in Faulted}

C11_WalkTerminates ==
    pc = "walk" => Len(reqs) <= Cardinality(DOMAIN tree)

\* the files of the remote in depth-first order: the entries of a page in
\* page order, the subtree of a directory entry in its place, then the next page
DepthFirst == Paths(LeavesFrom(tree, {}, ContentsUrl("")))

ArtifactOf(k) == output_path(split(repos[k], "/")[1], split(repos[k], "/")[2])

\* C13: while one entry of the list is processed, the artifact produced for
\* an earlier entry naming a different repository (a header and at least one
\* FileEntry line) is left as it is: not
\* truncated, not overwritten, not appended to, so that its lines are still
\* there when the batch completes.
C13_ArtifactsIndependent ==
    [][ (pc = "header" \/ pc = "append" \/ pc = "walk") =>
            \A k \in 1..(i - 1) :
                (repos[k] # repo /\ Len(Content(ArtifactOf(k))) >= 2) =>
                    /\ ArtifactOf(k) \in DOMAIN fs'
                    /\ fs'[ArtifactOf(k)] = fs[ArtifactOf(k)]
      ]_vars

\* an "owner/name" string of exactly two non-empty segments
TwoSegments(s) ==
    /\ Len(split(s, "/")) = 2
    /\ split(s, "/")[1] # <<>>
    /\ split(s, "/")[2] # <<>>

\* C14: no request is issued for an entry of the list that does not split on
\* '/' into exactly two non-empty segments.
C14_IdentifierParsing ==
    \A c \in Range(calls) : c.fn = "get_github_repo" => TwoSegments(repos[c.i])

\* main has issued the metadata request of entry k
Started(k) == k < i \/ (k = i /\ pc \in {"header", "append", "walk", "blocked"})
\* the URLs the walk has discovered: the contents URL of the root, of every
\* directory entry it has processed, and the 'next' cursor of every page received
Discovered ==
    {ContentsUrl("")} \cup
    {ContentsUrl(tree[e.url].items[e.k].path) : e \in {x \in Range(seen) : x.outcome = "dir"}} \cup
    {NextCursor(tree, r.url) : r \in {q \in Range(reqs) : q.ok}}

\* C15: every entry of the list main has taken up has had its metadata URL
\* requested once, no entry more than once; a walk requests only URLs it has
\* discovered, none of them twice, whether the request failed or not; and the
\* frame whose request failed has left the walk without a further request.
C15_AtMostOneAttempt ==
    /\ \A k \in 1..Len(repos) :
           Cardinality({n \in DOMAIN calls : calls[n].fn = "get_github_repo" /\ calls[n].i = k})
               = (IF Started(k) THEN 1 ELSE 0)
    /\ pc = "done" => \A k \in 1..Len(repos) : Started(k)
    /\ tree # NoTree =>
           /\ \A n \in DOMAIN reqs : reqs[n].url \in Discovered
           /\ \A a, b \in DOMAIN reqs : a < b => reqs[a].url # reqs[b].url
           /\ \A n \in DOMAIN reqs : (~reqs[n].ok /\ pc # "blocked") =>
                  \A f \in DOMAIN stack : stack[f].url # reqs[n].url

\* C15 witness: in a finished walk a page request failed and the walk went on
\* with requests for other URLs, after a failed metadata request of the entry
\* before
C15_Witness ==
    /\ WalkOver
    /\ i = 3
    /\ ~calls[1].ok
    /\ \E n \in DOMAIN reqs : ~reqs[n].ok /\ n < Len(reqs)

\* C16: every urlopen returns a response or a fault to its caller, so the
\* batch eventually reaches completion or process exit.
C16_NoBlocking == <>Stopped

\* the step about to be taken raises a non-transport exception in the
\* innermost frame: the page it receives has no entry (line 77), or the entry
\* it processes lacks a field
RaisesInFrame ==
    /\ pc = "walk"
    /\ \/ top.k = 0 /\ outcome' = "ok" /\ Len(reqs') = Len(reqs) + 1 /\ data = <<>>
       \/ top.k \in DOMAIN data /\ item_raises(data[top.k]) # NoError

Open == Cardinality({n \in DOMAIN stack : response_open(stack, n)})

\* the innermost frame gives up its response without an exception: it goes on
\* to the next page or returns
Releases ==
    /\ pc = "walk"
    /\ response_open(stack, Len(stack))
    /\ exc' = exc
    /\ \/ Len(stack') < Len(stack)
       \/ Len(stack') = Len(stack) /\ ~response_open(stack', Len(stack))

\* C18 (amended): every frame that has called into a subdirectory holds its
\* response open until that call is over, so the responses held open number
\* the recursion depth once the innermost frame has received its page and one
\* less while it has not; and a frame gives up its response, short of an
\* exception, only after every entry of the page, subdirectories included, has
\* been processed.
C18_ResponsesHeld ==
    /\ [](/\ \A n \in 1..(Len(stack) - 1) : response_open(stack, n)
          /\ Open = (IF stack # <<>> /\ top.k = 0 THEN Len(stack) - 1 ELSE Len(stack)))
    /\ [][ Releases =>
               /\ top.k > Len(data)
               /\ \A k \in DOMAIN data : \E e \in Range(seen) : e.url = top.url /\ e.k = k
          ]_vars

\* C18 witness: three frames deep, each holding its response
C18_Witness ==
    /\ Len(stack) = 3
    /\ Open = 3

\* C18 as stated: the number of responses held open is the recursion depth at
\* every moment, so it does not change while the depth does not.
C18_OpenEqualsDepth ==
    [][ (pc = "walk" /\ pc' = "walk" /\ Len(stack') = Len(stack)) => Open' = Open ]_vars

====
